---------------------------- MODULE Spec2Model ----------------------------
(***************************************************************************)
(* OAHashMap (src/src/lib.rs): an open-addressing hash table with linear   *)
(* probing, growth by doubling and deletion.                               *)
(*                                                                         *)
(* The backing Vec is a sequence of Option<Entry>: None is <<>> and        *)
(* Some(e) is <<e>>.  Index i of the Vec is element i + 1 of the sequence. *)
(* An operation that indexes the Vec out of bounds panics; the panic is    *)
(* recorded in `panicked` and no operation runs afterwards.                *)
(*                                                                         *)
(* An intermediate result r of an operation is bound once, in the form     *)
(* CHOOSE out \in {e(r) : r \in {...}} : TRUE, which is e(r).               *)
(***************************************************************************)
EXTENDS Integers, Sequences, FiniteSets

(***************************************************************************)
(* Program constants.                                                      *)
(***************************************************************************)
INITIAL_CAPACITY == 64

\* EXTEND_LIMIT is the f32 nearest to 0.6, i.e. 5033165 / 2^23.  The f32
\* quotient count / capacity is exact when the capacity is a power of two;
\* for the other capacity reached, usize::MAX, no quotient is within an f32
\* rounding error of the limit.
EXTEND_LIMIT_NUM == 5033165
EXTEND_LIMIT_DEN == 8388608

(***************************************************************************)
(* Bounds of the workload.                                                 *)
(***************************************************************************)
\* width of usize in bits
UsizeBits == 9
\* keys 0 .. NumFill-1 are inserted in increasing order, FillBatch at a time,
\* each mapped to itself, as in the loop of tests::basic
FillBatch == 13
NumBatches == 6
NumFill == FillBatch * NumBatches
\* the free keys hash to the last HomeSpan + 1 slots
HomeSpan == 1
\* values of the free keys are 1 .. MaxVal
MaxVal == 2

USIZE_MAX == 2^UsizeBits - 1

FillKeys == 0 .. (NumFill - 1)
\* two more keys are inserted with any value and deleted freely
FreeKeys == {NumFill, NumFill + 1}
Keys == FillKeys \cup FreeKeys
Vals == 1 .. MaxVal
\* hash values the free keys may have: their home slots are the last
\* HomeSpan + 1 slots of the table at capacity 64, 128 and 256
HashChoices == (4 * INITIAL_CAPACITY - 1 - HomeSpan) .. (4 * INITIAL_CAPACITY - 1)

VARIABLES
    buffer,     \* OAHashMap::buffer
    panicked,   \* TRUE once an operation has panicked
    hash,       \* calculate_hash, a fixed function of the key
    shadow,     \* per key, the value of the last insert call, <<>> after delete
    last        \* the last call: its operation and key, what search returned,
                \* whether insert grew the table, whether delete found the key

vars == <<buffer, panicked, hash, shadow, last>>

None == <<>>
Some(x) == <<x>>
IsSome(o) == o # <<>>
Unwrap(o) == o[1]

\* Vec indexing: buf[index], defined for index < len
At(buf, index) == buf[index + 1]
Put(buf, index, slot) == [buf EXCEPT ![index + 1] = slot]
\* Vec::capacity(): with_capacity(n) followed by n pushes, so capacity = len
Capacity(buf) == Len(buf)
InBounds(buf, index) == index >= 0 /\ index < Len(buf)

Entry_new(key, value) == [key |-> key, value |-> value, is_deleted |-> FALSE]

\* a Vec of n None slots (built as a sequence by doubling)
RECURSIVE NoneBuffer(_)
NoneBuffer(n) ==
    IF n = 0 THEN <<>>
    ELSE IF n % 2 = 0 THEN NoneBuffer(n \div 2) \o NoneBuffer(n \div 2)
    ELSE Append(NoneBuffer(n - 1), None)

new == NoneBuffer(INITIAL_CAPACITY)

calculate_hash(h, key) == h[key]

starting_index(buf, h, key) == calculate_hash(h, key) % Capacity(buf)

(***************************************************************************)
(* find_index: the result is [panic, index], index an Option.              *)
(***************************************************************************)
RECURSIVE find_index_loop(_, _, _)
find_index_loop(buf, key, index) ==
    IF ~InBounds(buf, index)
    THEN [panic |-> TRUE, index |-> None]
    ELSE IF ~IsSome(At(buf, index))
    THEN [panic |-> FALSE, index |-> None]
    ELSE IF Unwrap(At(buf, index)).key = key
    THEN [panic |-> FALSE, index |-> Some(index)]
    ELSE find_index_loop(buf, key, index + 1)

find_index(buf, h, key) == find_index_loop(buf, key, starting_index(buf, h, key))

\* search: [panic, ret], ret the Option<&V>
search(buf, h, key) ==
    CHOOSE out \in
        {IF f.panic
         THEN [panic |-> TRUE, ret |-> None]
         ELSE IF IsSome(f.index)
         THEN [panic |-> FALSE, ret |-> Some(Unwrap(At(buf, Unwrap(f.index))).value)]
         ELSE [panic |-> FALSE, ret |-> None] :
            f \in {find_index(buf, h, key)}} : TRUE

(***************************************************************************)
(* delete: [panic, buf, found]                                             *)
(***************************************************************************)
\* delete that marks the entry deleted and leaves it in its slot
RECURSIVE delete_loop_tombstone(_, _, _)
delete_loop_tombstone(buf, key, index) ==
    IF ~InBounds(buf, index)
    THEN [panic |-> TRUE, buf |-> buf, found |-> FALSE]
    ELSE IF ~IsSome(At(buf, index))
    THEN [panic |-> FALSE, buf |-> buf, found |-> FALSE]
    ELSE IF Unwrap(At(buf, index)).key = key
    THEN [panic |-> FALSE, found |-> TRUE,
          buf |-> Put(buf, index,
                      Some([Unwrap(At(buf, index)) EXCEPT !.is_deleted = TRUE]))]
    ELSE delete_loop_tombstone(buf, key, index + 1)

\* delete that clears the first occupied slot without comparing the keys
delete_loop_any_key(buf, key, index) ==
    IF ~InBounds(buf, index)
    THEN [panic |-> TRUE, buf |-> buf, found |-> FALSE]
    ELSE IF ~IsSome(At(buf, index))
    THEN [panic |-> FALSE, buf |-> buf, found |-> FALSE]
    ELSE [panic |-> FALSE, buf |-> Put(buf, index, None), found |-> TRUE]

\* delete that clears the last entry of the key on the probe, not the first
RECURSIVE delete_loop_last(_, _, _)
delete_loop_last(buf, key, index) ==
    IF ~InBounds(buf, index)
    THEN [panic |-> TRUE, buf |-> buf, found |-> FALSE]
    ELSE IF ~IsSome(At(buf, index))
    THEN [panic |-> FALSE, buf |-> buf, found |-> FALSE]
    ELSE IF Unwrap(At(buf, index)).key = key
    THEN CHOOSE out \in
            {IF r.found THEN r
             ELSE [panic |-> FALSE, buf |-> Put(buf, index, None), found |-> TRUE] :
                r \in {delete_loop_last(buf, key, index + 1)}} : TRUE
    ELSE delete_loop_last(buf, key, index + 1)

RECURSIVE delete_loop(_, _, _)
delete_loop(buf, key, index) ==
    IF ~InBounds(buf, index)
    THEN [panic |-> TRUE, buf |-> buf, found |-> FALSE]
    ELSE IF ~IsSome(At(buf, index))
    THEN [panic |-> FALSE, buf |-> buf, found |-> FALSE]
    ELSE IF Unwrap(At(buf, index)).key = key
    THEN [panic |-> FALSE, buf |-> Put(buf, index, None), found |-> TRUE]
    ELSE delete_loop(buf, key, index + 1)

\* delete by marking: the matching entry stays in its slot as a tombstone
delete_marking(buf, h, key) ==
    delete_loop_tombstone(buf, key, starting_index(buf, h, key))

delete(buf, h, key) == delete_loop(buf, key, starting_index(buf, h, key))

(***************************************************************************)
(* insert_unchecked: [panic, buf]                                          *)
(***************************************************************************)
RECURSIVE insert_probe(_, _, _)
insert_probe(buf, entry, index) ==
    IF ~InBounds(buf, index)
    THEN [panic |-> TRUE, buf |-> buf]
    ELSE IF ~IsSome(At(buf, index))
    THEN [panic |-> FALSE, buf |-> Put(buf, index, Some(entry))]
    ELSE IF Unwrap(At(buf, index)).is_deleted
    THEN [panic |-> FALSE, buf |-> Put(buf, index, Some(entry))]
    ELSE insert_probe(buf, entry, index + 1)

\* insert_unchecked without the lookup of an existing entry of the key
insert_unchecked_no_find(buf, h, entry) ==
    insert_probe(buf, entry, starting_index(buf, h, entry.key))

insert_unchecked(buf, h, entry) ==
    CHOOSE out \in
        {IF f.panic
         THEN [panic |-> TRUE, buf |-> buf]
         ELSE IF IsSome(f.index)
         THEN [panic |-> FALSE, buf |-> Put(buf, Unwrap(f.index), Some(entry))]
         ELSE insert_probe(buf, entry, starting_index(buf, h, entry.key)) :
            f \in {find_index(buf, h, entry.key)}} : TRUE

(***************************************************************************)
(* needs_extending and extend                                              *)
(***************************************************************************)
\* self.buffer.iter().filter(|entry| entry is Some and not is_deleted).count()
IsLive(slot) == IsSome(slot) /\ ~Unwrap(slot).is_deleted
number_of_elements(buf) == Len(SelectSeq(buf, IsLive))

\* a / b > n / d for a, n >= 0 and b, d > 0, compared by quotients and
\* remainders so that no product is formed
RECURSIVE RatioGreater(_, _, _, _)
RatioGreater(a, b, n, d) ==
    IF a \div b # n \div d THEN a \div b > n \div d
    ELSE IF a % b = 0 THEN FALSE
    ELSE IF n % d = 0 THEN TRUE
    ELSE RatioGreater(d, n % d, b, a % b)

\* a load limit of seven tenths instead of EXTEND_LIMIT
needs_extending_late(buf) ==
    RatioGreater(number_of_elements(buf), Capacity(buf), 7, 10)

\* a load limit of one half instead of EXTEND_LIMIT
needs_extending_half(buf) ==
    RatioGreater(number_of_elements(buf), Capacity(buf), 1, 2)

\* percentage > EXTEND_LIMIT
needs_extending(buf) ==
    RatioGreater(number_of_elements(buf), Capacity(buf),
                 EXTEND_LIMIT_NUM, EXTEND_LIMIT_DEN)

\* growth by a fixed number of slots instead of doubling
new_capacity_additive(current_capacity) ==
    IF current_capacity + INITIAL_CAPACITY > USIZE_MAX
    THEN USIZE_MAX ELSE current_capacity + INITIAL_CAPACITY

\* current_capacity.checked_mul(2).unwrap_or(usize::MAX)
new_capacity(current_capacity) ==
    IF current_capacity * 2 > USIZE_MAX THEN USIZE_MAX ELSE current_capacity * 2

\* for entry in old_buffer { if let Some(entry) = entry { insert_unchecked } }
\* over the Some slots entries[lo .. hi] in order, stopping at a panic; the
\* range is split in halves to keep the evaluation shallow
RECURSIVE reinsert(_, _, _, _, _)
reinsert(acc, entries, h, lo, hi) ==
    IF lo > hi
    THEN [panic |-> FALSE, buf |-> acc]
    ELSE IF lo = hi
    THEN insert_unchecked(acc, h, Unwrap(entries[lo]))
    ELSE CHOOSE out \in
            {IF left.panic THEN left
             ELSE reinsert(left.buf, entries, h, (lo + hi) \div 2 + 1, hi) :
                left \in {reinsert(acc, entries, h, lo, (lo + hi) \div 2)}} : TRUE

extend(buf, h) ==
    IF Capacity(buf) = USIZE_MAX
    THEN [panic |-> TRUE, buf |-> buf]
    ELSE CHOOSE out \in
            {reinsert(NoneBuffer(new_capacity(Capacity(buf))), entries, h,
                      1, Len(entries)) :
                entries \in {SelectSeq(buf, IsSome)}} : TRUE

\* insert: [panic, buf]
insert(buf, h, key, value) ==
    CHOOSE out \in
        {IF g.panic THEN g ELSE insert_unchecked(g.buf, h, Entry_new(key, value)) :
            g \in {IF needs_extending(buf) THEN extend(buf, h)
                                           ELSE [panic |-> FALSE, buf |-> buf]}} : TRUE

(***************************************************************************)
(* The state machine.                                                      *)
(***************************************************************************)
\* fill keys hash to themselves; free keys hash to any of HashChoices
\* (the free keys differ in nothing but their hash values, so only the
\* assignments that are monotone in the key are taken)
HashFunctions ==
    {[k \in Keys |-> IF k \in FillKeys THEN k ELSE f[k]] :
        f \in {g \in [FreeKeys -> HashChoices] :
                  \A j, k \in FreeKeys : j <= k => g[j] <= g[k]}}

Init ==
    /\ buffer = new
    /\ panicked = FALSE
    /\ hash \in HashFunctions
    /\ shadow = [k \in Keys |-> None]
    /\ last = [op |-> "new", key |-> 0, ret |-> None, grew |-> FALSE, found |-> FALSE]

\* the number of fill keys inserted so far
NextFill == Cardinality({k \in FillKeys : IsSome(shadow[k])})

\* for i in from .. to-1 { insert(i, i) }, stopping at a panic; done is the
\* number of calls made, grew whether the last of them grew the table
RECURSIVE insert_range(_, _, _, _)
insert_range(buf, h, from, to) ==
    CHOOSE out \in
        {IF r.panic \/ from + 1 >= to
         THEN [panic |-> r.panic, buf |-> r.buf, done |-> from + 1,
               grew |-> Capacity(r.buf) # Capacity(buf)]
         ELSE insert_range(r.buf, h, from + 1, to) :
            r \in {insert(buf, h, from, from)}} : TRUE

Insert(key, value) ==
    /\ ~panicked
    /\ \E r \in {insert(buffer, hash, key, value)} :
           /\ buffer' = r.buf
           /\ panicked' = r.panic
           /\ last' = [op |-> "insert", key |-> key, ret |-> None,
                       grew |-> Capacity(r.buf) # Capacity(buffer), found |-> FALSE]
    /\ shadow' = [shadow EXCEPT ![key] = Some(value)]
    /\ UNCHANGED hash

InsertRange ==
    /\ ~panicked
    /\ NextFill < NumFill
    /\ \E from \in {NextFill} :
       \E r \in {insert_range(buffer, hash, from, from + FillBatch)} :
           /\ buffer' = r.buf
           /\ panicked' = r.panic
           /\ shadow' = [k \in Keys |->
                           IF k >= from /\ k < r.done THEN Some(k) ELSE shadow[k]]
           /\ last' = [op |-> "insert", key |-> r.done - 1, ret |-> None,
                       grew |-> r.grew, found |-> FALSE]
    /\ UNCHANGED hash

Search(key) ==
    /\ ~panicked
    /\ \E r \in {search(buffer, hash, key)} :
           /\ panicked' = r.panic
           /\ last' = [op |-> "search", key |-> key, ret |-> r.ret,
                       grew |-> FALSE, found |-> FALSE]
    /\ UNCHANGED <<buffer, hash, shadow>>

Delete(key) ==
    /\ ~panicked
    /\ \E r \in {delete(buffer, hash, key)} :
           /\ buffer' = r.buf
           /\ panicked' = r.panic
           /\ last' = [op |-> "delete", key |-> key, ret |-> None,
                       grew |-> FALSE, found |-> r.found]
    /\ shadow' = [shadow EXCEPT ![key] = None]
    /\ UNCHANGED hash

Next ==
    \/ \E k \in FreeKeys, v \in Vals : Insert(k, v)
    \/ InsertRange
    \/ \E k \in FreeKeys : Search(k)
    \/ \E k \in FreeKeys : Delete(k)

Spec == Init /\ [][Next]_vars

\* the same table driven by insert calls only
NextInsertOnly ==
    \/ \E k \in FreeKeys, v \in Vals : Insert(k, v)
    \/ InsertRange

InsertOnlySpec == Init /\ [][NextInsertOnly]_vars

\* the same table with the fill keys inserted one call at a time, so that
\* every step is a single call
InsertOne ==
    /\ NextFill < NumFill
    /\ \E key \in {NextFill} : Insert(key, key)

NextCall ==
    \/ \E k \in FreeKeys, v \in Vals : Insert(k, v)
    \/ InsertOne
    \/ \E k \in FreeKeys : Search(k)
    \/ \E k \in FreeKeys : Delete(k)

CallSpec == Init /\ [][NextCall]_vars

(***************************************************************************)
(* The table filled by insert calls until the capacity is exhausted: the   *)
(* fill keys are inserted one call at a time, and the two free keys hash   *)
(* to the last slots of the table of capacity usize::MAX.                  *)
(***************************************************************************)
\* the number of fill keys: more than 0.6 * usize::MAX
SatFill == (3 * USIZE_MAX) \div 5 + 2
SatKeys == 0 .. (SatFill + 1)
SatFillKeys == SatKeys \ FreeKeys
SatHashChoices == (USIZE_MAX - 1 - HomeSpan) .. (USIZE_MAX - 1)

SatHashFunctions ==
    {[k \in SatKeys |-> IF k \in FreeKeys THEN f[k] ELSE k] :
        f \in {g \in [FreeKeys -> SatHashChoices] :
                  \A j, k \in FreeKeys : j <= k => g[j] <= g[k]}}

SatInit ==
    /\ buffer = new
    /\ panicked = FALSE
    /\ hash \in SatHashFunctions
    /\ shadow = [k \in SatKeys |-> None]
    /\ last = [op |-> "new", key |-> 0, ret |-> None, grew |-> FALSE, found |-> FALSE]

\* the number of fill keys inserted so far, and the next of them
SatDone == Cardinality({k \in SatFillKeys : IsSome(shadow[k])})
SatNextKey(done) == IF done < NumFill THEN done ELSE done + 2

\* oa.insert(i, i) for the next fill key i
InsertNext ==
    /\ SatDone < SatFill
    /\ \E key \in {SatNextKey(SatDone)} : Insert(key, key)

NextSaturation ==
    \/ \E k \in FreeKeys, v \in Vals : Insert(k, v)
    \/ InsertNext

SaturationSpec == SatInit /\ [][NextSaturation]_vars

(***************************************************************************)
(* Properties.                                                             *)
(***************************************************************************)
Returned(value) == [panic |-> FALSE, ret |-> value]

\* the Vec indices whose slot holds an entry of key
SlotsHolding(buf, key) ==
    {i \in 0 .. (Len(buf) - 1) : IsSome(At(buf, i)) /\ Unwrap(At(buf, i)).key = key}

\* the slots a wrapping probe from slot `from` passes before it reaches slot `to`
ProbePath(buf, from, to) ==
    IF from <= to THEN from .. (to - 1)
    ELSE (from .. (Len(buf) - 1)) \cup (0 .. (to - 1))

IsPowerOfTwo(n) == \E e \in 0 .. UsizeBits : n = 2^e

\* C1: immediately after insert(k, v) returns, search(k) returns v, also when
\* the insert grew the table.
C1_RoundTrip ==
    (last.op = "insert" /\ ~panicked)
        => search(buffer, hash, last.key) = Returned(shadow[last.key])

C1_Witness ==
    /\ last.op = "insert" /\ last.grew /\ ~panicked
    /\ last.key \in FreeKeys
    /\ Cardinality(SlotsHolding(buffer, last.key)) = 1

\* C2: after insert(k, v1) followed by insert(k, v2), search(k) returns v2 and
\* exactly one slot of the backing array holds an entry whose key is k.
C2_Overwrite ==
    [][(last.op = "insert" /\ last'.op = "insert" /\ last'.key = last.key
            /\ ~panicked')
        => /\ search(buffer', hash', last'.key) = Returned(shadow'[last'.key])
           /\ Cardinality(SlotsHolding(buffer', last'.key)) = 1]_vars

\* C3: immediately after delete(k) returns, search(k) returns None, whether
\* or not k was present before.
C3_DeleteRemoves ==
    (last.op = "delete" /\ ~panicked)
        => search(buffer, hash, last.key) = Returned(None)

C3_Witness == last.op = "delete" /\ last.found /\ ~panicked

\* C4: delete(k) leaves every other key findable: if search(k2) returned v
\* before delete(k), k2 # k, it returns v afterwards.
C4_DeleteKeepsOthers ==
    [][\A k2 \in Keys :
        (/\ last'.op = "delete" /\ ~panicked' /\ k2 # last'.key
         /\ ~search(buffer, hash, k2).panic
         /\ IsSome(search(buffer, hash, k2).ret))
        => search(buffer', hash', k2) = search(buffer, hash, k2)]_vars

\* C5: after insert calls only, enough of them to have grown the table twice,
\* every inserted key is searchable with the value of its last insert.
C5_GrowthPreservesContents ==
    Capacity(buffer) >= 4 * INITIAL_CAPACITY
        => /\ ~panicked
           /\ \A k \in Keys :
                 IsSome(shadow[k]) => search(buffer, hash, k) = Returned(shadow[k])

\* C6: if search(k) returns None, delete(k) does not panic and leaves every
\* slot of the backing array and the capacity unchanged.
C6_DeleteAbsentNoOp ==
    [][(last'.op = "delete" /\ search(buffer, hash, last'.key) = Returned(None))
        => /\ ~panicked'
           /\ buffer' = buffer
           /\ Capacity(buffer') = Capacity(buffer)]_vars

\* a delete of an absent key whose probe passed an occupied slot
C6_Witness ==
    /\ last.op = "delete" /\ ~last.found /\ ~panicked
    /\ IsSome(At(buffer, starting_index(buffer, hash, last.key)))

\* C7: no two occupied slots hold entries with the same key.
C7_UniqueKeys ==
    \A k \in Keys : Cardinality(SlotsHolding(buffer, k)) <= 1

\* C8: every stored entry is reachable from the home slot of its key by
\* stepping +1 (wrapping) through occupied slots only.
C8_ProbeReachable ==
    \A i \in 0 .. (Len(buffer) - 1) :
        IsSome(At(buffer, i))
            => \A j \in ProbePath(buffer,
                                  starting_index(buffer, hash, Unwrap(At(buffer, i)).key),
                                  i) : IsSome(At(buffer, j))

\* C9: no operation indexes the backing array at an index >= capacity: the
\* probes wrap around, so none panics.
C9_NoOutOfBounds == ~panicked

\* C10: the capacity is 64 after new(), never zero, always a power of two,
\* never decreases, is unchanged by search and delete, and each insert leaves
\* it unchanged or exactly doubles it.
C10_Capacity ==
    /\ Capacity(buffer) = INITIAL_CAPACITY
    /\ [](Capacity(buffer) > 0 /\ IsPowerOfTwo(Capacity(buffer)))
    /\ [][/\ Capacity(buffer') >= Capacity(buffer)
          /\ last'.op \in {"search", "delete"}
                => Capacity(buffer') = Capacity(buffer)
          /\ last'.op = "insert"
                => Capacity(buffer') \in {Capacity(buffer), 2 * Capacity(buffer)}]_vars

C10_Witness ==
    last.op = "insert" /\ last.grew /\ Capacity(buffer) = 4 * INITIAL_CAPACITY

Min(a, b) == IF a <= b THEN a ELSE b

\* C11: extend panics, leaving the backing array unchanged, if and only if
\* the capacity is usize::MAX; otherwise the new capacity is
\* min(2 * capacity, usize::MAX).  Stated of extend in every state in which
\* the next insert calls it.
C11_CapacityExhaustion ==
    (~panicked /\ needs_extending(buffer))
        => \A r \in {extend(buffer, hash)} :
              /\ r.panic <=> Capacity(buffer) = USIZE_MAX
              /\ r.panic => r.buf = buffer
              /\ ~r.panic
                    => Capacity(r.buf) = Min(2 * Capacity(buffer), USIZE_MAX)

\* the number of occupied slots that are not marked deleted
Occupied(buf) ==
    Cardinality({i \in 0 .. (Len(buf) - 1) :
                    IsSome(At(buf, i)) /\ ~Unwrap(At(buf, i)).is_deleted})

\* the entry (key, value) lies at or after slot home, and every slot from
\* home up to it holds an entry of another key
PlacedFrom(buf, home, key, value) ==
    \E i \in home .. (Len(buf) - 1) :
        /\ At(buf, i) = Some(Entry_new(key, value))
        /\ \A j \in home .. (i - 1) :
              IsSome(At(buf, j)) /\ Unwrap(At(buf, j)).key # key

C13_ExtendPreservesSearch ==
    (~panicked /\ needs_extending(buffer))
        => \A r \in {extend(buffer, hash)} :
              ~r.panic => \A k \in Keys :
                             ~search(buffer, hash, k).panic
                                => search(r.buf, hash, k) = search(buffer, hash, k)

\* C14: a deletion persists: from the return of delete(k) until the next
\* insert of k (the states in which shadow[k] is None), whatever is done to
\* other keys and whether or not the table grows, search(k) finds no value.
C14_DeletePersists ==
    ~panicked
        => \A k \in FreeKeys :
              shadow[k] = None
                 => \A r \in {search(buffer, hash, k)} : r.panic \/ r.ret = None

\* C15: insert(k, v) leaves the other keys alone: for every key k2 # k for
\* which search(k2) returns before the call, search(k2) returns the same
\* after it, also when the insert grows the table.  Stated of the steps
\* that are one insert call, those of the free keys.
C15_InsertKeepsOthers ==
    [][(last'.op = "insert" /\ last'.key \in FreeKeys /\ ~panicked')
        => \A k2 \in FreeKeys \ {last'.key} :
              ~search(buffer, hash, k2).panic
                 => search(buffer', hash', k2) = search(buffer, hash, k2)]_vars

\* slot i is the first slot holding key that the probe from slot home meets,
\* and it meets no Empty slot before it
ProbeHit(buf, home, key, i) ==
    /\ home <= i
    /\ IsSome(At(buf, i)) /\ Unwrap(At(buf, i)).key = key
    /\ \A j \in home .. (i - 1) :
          IsSome(At(buf, j)) /\ Unwrap(At(buf, j)).key # key

\* C16: when the probe from the home slot of k reaches a slot holding k
\* before an Empty slot, delete(k) returns with exactly that slot reset to
\* Empty: every other slot and the capacity are unchanged, and no entry is
\* marked deleted.
C16_DeleteFrame ==
    [][last'.op = "delete"
        => \A i \in 0 .. (Len(buffer) - 1) :
              ProbeHit(buffer, hash[last'.key] % Len(buffer), last'.key, i)
                 => /\ ~panicked'
                    /\ buffer' = [buffer EXCEPT ![i + 1] = None]]_vars

\* a delete has cleared the first entry of its key and left a later one
C16_Witness ==
    /\ last.op = "delete" /\ last.found /\ ~panicked
    /\ SlotsHolding(buffer, last.key) # {}
    /\ ~IsSome(At(buffer, hash[last.key] % Len(buffer)))

\* slot i is where the wrapping probe from slot home puts an entry of key:
\* the first slot holding key if the probe meets it before an Empty slot,
\* otherwise the first slot that is Empty or marked deleted
InsertTarget(buf, home, key, i) ==
    \/ /\ IsSome(At(buf, i)) /\ Unwrap(At(buf, i)).key = key
       /\ \A j \in ProbePath(buf, home, i) :
             IsSome(At(buf, j)) /\ Unwrap(At(buf, j)).key # key
    \/ /\ ~IsSome(At(buf, i)) \/ Unwrap(At(buf, i)).is_deleted
       /\ \A j \in ProbePath(buf, home, i) :
             IsSome(At(buf, j)) /\ ~Unwrap(At(buf, j)).is_deleted
       /\ ~\E j \in 0 .. (Len(buf) - 1) :
             /\ IsSome(At(buf, j)) /\ Unwrap(At(buf, j)).key = key
             /\ \A l \in ProbePath(buf, home, j) : IsSome(At(buf, l))

\* C17: an insert(k, v) that does not grow the table returns with exactly
\* one slot written: the slot the probe from the home slot of k selects
\* holds (k, v, not deleted) and every other slot is unchanged.  Stated of
\* the steps that are one insert call, those of the free keys.
C17_InsertFrame ==
    [][(/\ last'.op = "insert" /\ last'.key \in FreeKeys
        /\ ~(5 * Occupied(buffer) > 3 * Capacity(buffer)))
        => /\ ~panicked'
           /\ \E i \in 0 .. (Len(buffer) - 1) :
                 /\ InsertTarget(buffer, hash[last'.key] % Len(buffer), last'.key, i)
                 /\ buffer' = [buffer EXCEPT ![i + 1] =
                        Some(Entry_new(last'.key, Unwrap(shadow'[last'.key])))]]_vars

\* C18: no tombstone is ever created: every occupied slot has is_deleted =
\* FALSE, so that insert never reuses a slot marked deleted and the count
\* of the load factor is the number of occupied slots.
C18_NoTombstone ==
    /\ \A i \in 0 .. (Len(buffer) - 1) :
          IsSome(At(buffer, i)) => ~Unwrap(At(buffer, i)).is_deleted
    /\ number_of_elements(buffer)
          = Cardinality({i \in 0 .. (Len(buffer) - 1) : IsSome(At(buffer, i))})

\* a delete has removed an entry from a table that has grown and is not empty
C18_Witness ==
    /\ last.op = "delete" /\ last.found /\ ~panicked
    /\ Capacity(buffer) > INITIAL_CAPACITY
    /\ number_of_elements(buffer) > 0

=============================================================================
